---- MODULE Spec2Model ----
(***************************************************************************)
(* A model of src/cli.c: the worker pool (pool_create, pool_add_work,      *)
(* pool_wait, pool_destroy, tpool_worker), the sorted result list          *)
(* (fzf_list_insert, fzf_list_print) and the single-threaded main.         *)
(*                                                                         *)
(* Threads are <<"w", i>> (pool workers) and <<"c", i>> (client threads    *)
(* calling the pool's API).  Task nodes are numbered 1..MaxTasks in the    *)
(* order malloc hands them out; NULL is 0.  Every critical section is one  *)
(* step that takes the mutex and one or more steps that run with it held.  *)
(* A wake-up from pthread_cond_wait puts the thread back at the step that   *)
(* takes the mutex, after which it tests its loop condition again; a        *)
(* spurious wake-up is such a re-test that changes nothing, and is left out.*)
(***************************************************************************)
EXTENDS Integers, Sequences, FiniteSets, TLC

\* ---------------------------------------------------------------- bounds
MaxWorkers == 2
MaxTasks == 3
MaxWaits == 2
MaxInserts == 4
MaxScore == 9
MaxLines == 3
MaxLineLen == 2
MaxLineScore == 2

\* ------------------------------------------------------------- constants
NULL == 0
POOL == 1
FUNC == 1

Nodes == 1..MaxTasks
Workers == {<<"w", i>> : i \in 1..MaxWorkers}
Main == <<"c", 1>>
Other == <<"c", 2>>
Clients == {Main, Other}
NoThread == <<"none", 0>>

VARIABLES
  \* struct pool (lines 31-40)
  work_first, work_last, work_mutex, working_cnt, thread_cnt, stop,
  \* the heap: each node's next field, how often it was freed, free(tm)
  node_next, node_frees, pool_freed,
  \* tpool_worker: position and the local `work`
  wpc, wwork,
  \* client threads: position, local `work`, arguments and result of the
  \* current pool_add_work call, where pool_wait returns to
  cpc, cwork, cargs, result, cret,
  \* number of workers pool_create was called with, nodes malloc'ed so far,
  \* pool_wait calls made so far
  num, allocated, waits,
  \* history: nodes in the order their pool_add_work returned true, nodes
  \* in the order of dequeue, runs of each task's function, producer of
  \* each node, nodes freed by pool_destroy's sweep, threads that touched
  \* the pool after free(tm)
  submitted, dequeued, runs, producer, swept, pool_uaf

poolVars == <<work_first, work_last, work_mutex, working_cnt, thread_cnt, stop,
              node_next, node_frees, pool_freed>>
workerVars == <<wpc, wwork>>
clientVars == <<cpc, cwork, cargs, result, cret>>
histVars == <<num, allocated, waits, submitted, dequeued, runs, producer, swept, pool_uaf>>
\* main and the result list: the fzf_linked_list_t, main's position, the
\* lines getline has returned, the string each malloc'ed copy holds, the
\* lines written to stdout; the scores fzf_get_score has been seen to give;
\* the scores of the items inserted so far, in order
VARIABLES list, mpc, input, text, printed, scorer, inserted

mainVars == <<list, mpc, input, text, printed, scorer, inserted>>

\* how often each task's text was freed; threads that read or wrote a task
\* node after it was freed
VARIABLES text_frees, node_uaf

auxVars == <<text_frees, node_uaf>>
vars == <<poolVars, workerVars, clientVars, histVars, mainVars, auxVars>>

Range(seq) == {seq[i] : i \in 1..Len(seq)}

\* ------------------------------------------------------------ the queue
\* The nodes reachable from `first` along next, at most `fuel` of them.
RECURSIVE Walk(_, _, _)
Walk(first, nxt, fuel) ==
  IF first = NULL \/ fuel = 0 THEN <<>>
  ELSE <<first>> \o Walk(nxt[first], nxt, fuel - 1)

Queue == Walk(work_first, node_next, MaxTasks)

\* pool_work_create without the test of lines 44-46.
pool_work_create_NoNullCheck(func, fresh) == fresh

\* pool_work_create (lines 42-54): NULL for a null function, else the node
\* malloc returned.
pool_work_create(func, fresh) == IF func = NULL THEN NULL ELSE fresh

\* tpool_work_get that forgets to advance the head at line 76.
tpool_work_get_NoAdvance(first, last, nxt) ==
  IF first = NULL THEN [work |-> NULL, first |-> first, last |-> last]
  ELSE IF nxt[first] = NULL THEN [work |-> first, first |-> NULL, last |-> NULL]
  ELSE [work |-> first, first |-> first, last |-> last]

\* tpool_work_get (lines 62-80): the dequeued node and the new head/tail.
tpool_work_get(first, last, nxt) ==
  IF first = NULL THEN [work |-> NULL, first |-> first, last |-> last]
  ELSE IF nxt[first] = NULL THEN [work |-> first, first |-> NULL, last |-> NULL]
  ELSE [work |-> first, first |-> nxt[first], last |-> last]

\* An enqueue that links the new node in front of the head.
Enqueue_AtHead(first, last, nxt, work) ==
  IF first = NULL
    THEN [first |-> work, last |-> work, next |-> nxt]
    ELSE [first |-> work, last |-> last, next |-> [nxt EXCEPT ![work] = first]]

\* pool_add_work's enqueue (lines 185-191).
Enqueue(first, last, nxt, work) ==
  IF first = NULL
    THEN [first |-> work, last |-> work, next |-> nxt]
    ELSE [first |-> first, last |-> work, next |-> [nxt EXCEPT ![last] = work]]

\* tpool_worker's wait loop condition (line 90).
WorkerMustWait == work_first = NULL /\ ~stop

\* A worker that leaves its loop only once the queue has drained.
WorkerSeesStop_WhenDrained == stop /\ work_first = NULL

\* tpool_worker's test that ends its loop (line 94).
WorkerSeesStop == stop

\* tpool_worker's condition for signalling working_cond (line 109), on the
\* count that line 108 left.
WorkerSignalsIdle(cnt) == ~stop /\ cnt = 0 /\ work_first = NULL

\* size_t arithmetic (lines 99, 108, 116) wraps; the width is scaled down
\* from 64 bits to 16.
SizeMod == 2^16
Inc(x) == (x + 1) % SizeMod
Dec(x) == (x - 1) % SizeMod

\* pool_wait without the second disjunct (line 207).
WaitMustBlock_NoJoin == ~stop /\ working_cnt # 0

\* pool_wait's condition for blocking (lines 206-207).
WaitMustBlock ==
  (~stop /\ working_cnt # 0) \/ (stop /\ thread_cnt # 0)

\* A broadcast that wakes nobody.
BroadcastWork_None == wpc

\* pthread_cond_broadcast(&work_cond): every worker blocked in line 91 is
\* made runnable; it re-acquires the mutex before it goes on.
BroadcastWork == [w \in Workers |-> IF wpc[w] = "waiting" THEN "lock" ELSE wpc[w]]

\* A signal that wakes nobody.
SignalWorking_None(pcs) == cpc' = pcs

\* pthread_cond_signal(&working_cond): one thread blocked in line 208, if
\* there is any, is made runnable.
SignalWorking(pcs) ==
  IF \E c \in Clients : pcs[c] = "wt_waiting"
    THEN \E c \in Clients : pcs[c] = "wt_waiting"
                            /\ cpc' = [pcs EXCEPT ![c] = "wt_lock"]
    ELSE cpc' = pcs

\* A thread touches a field of *tm.
Touch(t) == pool_uaf' = IF pool_freed THEN pool_uaf \cup {t} ELSE pool_uaf

\* pool_destroy has been called.
DestroyStarted ==
  cpc[Main] \in {"d_lock", "d_sweep", "d_free", "done"} \/ cret[Main] = "d_free"

\* --------------------------------------------------------------- Init
\* A pool_create that leaves thread_cnt as calloc made it.
InitialThreadCnt_Calloc(count) == 0

\* Line 128: thread_cnt = num.
InitialThreadCnt(count) == count

PoolInit(count) ==
  /\ num = count
  /\ work_first = NULL /\ work_last = NULL
  /\ work_mutex = NoThread
  /\ working_cnt = 0
  /\ thread_cnt = InitialThreadCnt(num)
  /\ stop = FALSE
  /\ node_next = [n \in Nodes |-> NULL]
  /\ node_frees = [n \in Nodes |-> 0]
  /\ pool_freed = FALSE
  /\ wpc = [w \in Workers |-> IF w[2] <= num THEN "lock" ELSE "none"]
  /\ wwork = [w \in Workers |-> NULL]
  /\ cpc = [c \in Clients |-> "idle"]
  /\ cwork = [c \in Clients |-> NULL]
  /\ cargs = [c \in Clients |-> <<POOL, FUNC>>]
  /\ result = [c \in Clients |-> "none"]
  /\ cret = [c \in Clients |-> "idle"]
  /\ allocated = 0
  /\ waits = 0
  /\ submitted = <<>>
  /\ dequeued = <<>>
  /\ runs = [n \in Nodes |-> 0]
  /\ producer = [n \in Nodes |-> NoThread]
  /\ swept = {}
  /\ pool_uaf = {}
  /\ text_frees = [n \in Nodes |-> 0]
  /\ node_uaf = {}

\* main before its first getline: fzf_list_create (lines 240-246) has run.
MainInit ==
  /\ list = [nodes |-> <<>>, len |-> 0]
  /\ mpc = "read"
  /\ input = <<>>
  /\ text = <<>>
  /\ printed = <<>>
  /\ scorer = <<>>
  /\ inserted = <<>>

\* main never creates a pool (the call is commented out, lines 300-321).
NoPoolInit == PoolInit(0) /\ MainInit

\* pool_create(num) has returned (lines 122-143); no worker has run yet.
Init == (\E count \in 0..MaxWorkers : PoolInit(count)) /\ MainInit

\* ------------------------------------------------------- tpool_worker
\* pthread_mutex_lock at line 88, or the re-acquisition that ends
\* pthread_cond_wait at line 91.
W_Lock(w) ==
  /\ wpc[w] = "lock"
  /\ work_mutex = NoThread
  /\ work_mutex' = w
  /\ wpc' = [wpc EXCEPT ![w] = "check"]
  /\ Touch(w)
  /\ UNCHANGED <<mainVars, auxVars>>
  /\ UNCHANGED <<work_first, work_last, working_cnt, thread_cnt, stop,
                 node_next, node_frees, pool_freed, wwork, clientVars,
                 num, allocated, waits, submitted, dequeued, runs, producer, swept>>

\* Lines 90-96: wait for work, or leave the loop on stop, or go on.
W_Check(w) ==
  /\ wpc[w] = "check"
  /\ IF WorkerMustWait
       THEN /\ wpc' = [wpc EXCEPT ![w] = "waiting"]
            /\ work_mutex' = NoThread
       ELSE /\ wpc' = [wpc EXCEPT ![w] = IF WorkerSeesStop THEN "exit" ELSE "get"]
            /\ work_mutex' = work_mutex
  /\ Touch(w)
  /\ UNCHANGED <<mainVars, auxVars>>
  /\ UNCHANGED <<work_first, work_last, working_cnt, thread_cnt, stop,
                 node_next, node_frees, pool_freed, wwork, clientVars,
                 num, allocated, waits, submitted, dequeued, runs, producer, swept>>

\* A dequeue without the unlock of line 100.
W_Get_KeepsLock(w) ==
  /\ wpc[w] = "get"
  /\ LET g == tpool_work_get(work_first, work_last, node_next) IN
       /\ work_first' = g.first
       /\ work_last' = g.last
       /\ wwork' = [wwork EXCEPT ![w] = g.work]
       /\ dequeued' = IF g.work = NULL THEN dequeued ELSE Append(dequeued, g.work)
  /\ working_cnt' = Inc(working_cnt)
  /\ wpc' = [wpc EXCEPT ![w] = "run"]
  /\ Touch(w)
  /\ UNCHANGED <<mainVars, auxVars>>
  /\ UNCHANGED <<work_mutex, thread_cnt, stop, node_next, node_frees, pool_freed,
                 clientVars, num, allocated, waits, submitted, runs, producer, swept>>

\* Lines 98-100: dequeue, count the worker as busy, unlock.
W_Get(w) ==
  /\ wpc[w] = "get"
  /\ LET g == tpool_work_get(work_first, work_last, node_next) IN
       /\ work_first' = g.first
       /\ work_last' = g.last
       /\ wwork' = [wwork EXCEPT ![w] = g.work]
       /\ dequeued' = IF g.work = NULL THEN dequeued ELSE Append(dequeued, g.work)
  /\ working_cnt' = Inc(working_cnt)
  /\ work_mutex' = NoThread
  /\ wpc' = [wpc EXCEPT ![w] = "run"]
  /\ Touch(w)
  /\ UNCHANGED <<mainVars, auxVars>>
  /\ UNCHANGED <<thread_cnt, stop, node_next, node_frees, pool_freed,
                 clientVars, num, allocated, waits, submitted, runs, producer, swept>>

\* Lines 102-105: run the task's function and free its node, no lock held.
\* The local `work` is dead from here to its next assignment at line 98.
W_Run(w) ==
  /\ wpc[w] = "run"
  /\ IF wwork[w] # NULL
       THEN /\ runs' = [runs EXCEPT ![wwork[w]] = @ + 1]
            /\ node_frees' = [node_frees EXCEPT ![wwork[w]] = @ + 1]
       ELSE UNCHANGED <<runs, node_frees>>
  /\ wwork' = [wwork EXCEPT ![w] = NULL]
  /\ wpc' = [wpc EXCEPT ![w] = "relock"]
  /\ UNCHANGED <<mainVars, auxVars>>
  /\ UNCHANGED <<work_first, work_last, work_mutex, working_cnt, thread_cnt,
                 stop, node_next, pool_freed, clientVars,
                 num, allocated, waits, submitted, dequeued, producer, swept,
                 pool_uaf>>

\* Lines 102-105 when the task's function is `worker` (lines 287-295): score
\* the text; a positive score prints the text and frees it, any other score
\* returns with the text still allocated; then line 104 frees the node.
W_RunWorker(w, score) ==
  /\ wpc[w] = "run"
  /\ IF wwork[w] # NULL
       THEN /\ runs' = [runs EXCEPT ![wwork[w]] = @ + 1]
            /\ node_frees' = [node_frees EXCEPT ![wwork[w]] = @ + 1]
            /\ node_uaf' = IF node_frees[wwork[w]] > 0 \/ text_frees[wwork[w]] > 0
                             THEN node_uaf \cup {w} ELSE node_uaf
            /\ IF score > 0
                 THEN /\ printed' = Append(printed, wwork[w])
                      /\ text_frees' = [text_frees EXCEPT ![wwork[w]] = @ + 1]
                 ELSE UNCHANGED <<printed, text_frees>>
       ELSE UNCHANGED <<runs, node_frees, node_uaf, printed, text_frees>>
  /\ wwork' = [wwork EXCEPT ![w] = NULL]
  /\ wpc' = [wpc EXCEPT ![w] = "relock"]
  /\ UNCHANGED <<list, mpc, input, text, scorer, inserted>>
  /\ UNCHANGED <<work_first, work_last, work_mutex, working_cnt, thread_cnt,
                 stop, node_next, pool_freed, clientVars,
                 num, allocated, waits, submitted, dequeued, producer, swept,
                 pool_uaf>>

\* A worker that goes on to line 108 without the lock of line 107.
W_Relock_NoLock(w) ==
  /\ wpc[w] = "relock"
  /\ wpc' = [wpc EXCEPT ![w] = "finish"]
  /\ Touch(w)
  /\ UNCHANGED <<mainVars, auxVars>>
  /\ UNCHANGED <<work_first, work_last, work_mutex, working_cnt, thread_cnt,
                 stop, node_next, node_frees, pool_freed, wwork, clientVars,
                 num, allocated, waits, submitted, dequeued, runs, producer, swept>>

\* Line 107.
W_Relock(w) ==
  /\ wpc[w] = "relock"
  /\ work_mutex = NoThread
  /\ work_mutex' = w
  /\ wpc' = [wpc EXCEPT ![w] = "finish"]
  /\ Touch(w)
  /\ UNCHANGED <<mainVars, auxVars>>
  /\ UNCHANGED <<work_first, work_last, working_cnt, thread_cnt, stop,
                 node_next, node_frees, pool_freed, wwork, clientVars,
                 num, allocated, waits, submitted, dequeued, runs, producer, swept>>

\* Lines 108-112: no longer busy; signal working_cond when the pool is idle.
W_Finish(w) ==
  /\ wpc[w] = "finish"
  /\ working_cnt' = Dec(working_cnt)
  /\ IF WorkerSignalsIdle(Dec(working_cnt)) THEN SignalWorking(cpc) ELSE cpc' = cpc
  /\ work_mutex' = NoThread
  /\ wpc' = [wpc EXCEPT ![w] = "lock"]
  /\ Touch(w)
  /\ UNCHANGED <<mainVars, auxVars>>
  /\ UNCHANGED <<work_first, work_last, thread_cnt, stop, node_next,
                 node_frees, pool_freed, wwork, cwork, cargs, result, cret,
                 num, allocated, waits, submitted, dequeued, runs, producer, swept>>

\* Lines 115-119, reached by the break at line 95 with the mutex held.
W_Exit(w) ==
  /\ wpc[w] = "exit"
  /\ thread_cnt' = Dec(thread_cnt)
  /\ SignalWorking(cpc)
  /\ work_mutex' = NoThread
  /\ wpc' = [wpc EXCEPT ![w] = "retired"]
  /\ Touch(w)
  /\ UNCHANGED <<mainVars, auxVars>>
  /\ UNCHANGED <<work_first, work_last, working_cnt, stop, node_next,
                 node_frees, pool_freed, wwork, cwork, cargs, result, cret,
                 num, allocated, waits, submitted, dequeued, runs, producer, swept>>

\* ------------------------------------------------------ pool_add_work
\* A client calls pool_add_work(tm, func, text, pattern).
SubmitCall(c, tm, func) ==
  /\ cpc[c] = "idle"
  /\ ~DestroyStarted
  /\ allocated + Cardinality({d \in Clients : cpc[d] = "s_entry"}) < MaxTasks
  /\ cpc' = [cpc EXCEPT ![c] = "s_entry"]
  /\ cargs' = [cargs EXCEPT ![c] = <<tm, func>>]
  /\ result' = [result EXCEPT ![c] = "none"]
  /\ UNCHANGED <<mainVars, auxVars>>
  /\ UNCHANGED <<poolVars, workerVars, cwork, cret, histVars>>

\* Lines 175-182: reject a null handle or a null function, else build the
\* node.  A call that returns leaves its arguments behind (they are reset).
SubmitEntry(c) ==
  /\ cpc[c] = "s_entry"
  /\ LET work == IF cargs[c][1] = NULL THEN NULL
                 ELSE pool_work_create(cargs[c][2], allocated + 1) IN
       IF work = NULL
         THEN /\ result' = [result EXCEPT ![c] = "false"]
              /\ cargs' = [cargs EXCEPT ![c] = <<POOL, FUNC>>]
              /\ cpc' = [cpc EXCEPT ![c] = "idle"]
              /\ UNCHANGED <<cwork, allocated, producer, node_next>>
         ELSE /\ cwork' = [cwork EXCEPT ![c] = work]
              /\ allocated' = work
              /\ producer' = [producer EXCEPT ![work] = c]
              /\ node_next' = [node_next EXCEPT ![work] = NULL]
              /\ cpc' = [cpc EXCEPT ![c] = "s_lock"]
              /\ UNCHANGED <<result, cargs>>
  /\ UNCHANGED <<mainVars, auxVars>>
  /\ UNCHANGED <<work_first, work_last, work_mutex, working_cnt, thread_cnt,
                 stop, node_frees, pool_freed, workerVars, cret,
                 num, waits, submitted, dequeued, runs, swept, pool_uaf>>

\* Line 184.
SubmitLock(c) ==
  /\ cpc[c] = "s_lock"
  /\ work_mutex = NoThread
  /\ work_mutex' = c
  /\ cpc' = [cpc EXCEPT ![c] = "s_enqueue"]
  /\ Touch(c)
  /\ UNCHANGED <<mainVars, auxVars>>
  /\ UNCHANGED <<work_first, work_last, working_cnt, thread_cnt, stop,
                 node_next, node_frees, pool_freed, workerVars,
                 cwork, cargs, result, cret,
                 num, allocated, waits, submitted, dequeued, runs, producer, swept>>

\* Lines 185-196: append at the tail, broadcast work_cond, unlock, return
\* true; the local `work` dies with the call.  Line 189 writes the next
\* field of the node work_last points to, freed or not.
SubmitEnqueue(c) ==
  /\ cpc[c] = "s_enqueue"
  /\ LET e == Enqueue(work_first, work_last, node_next, cwork[c]) IN
       /\ work_first' = e.first
       /\ work_last' = e.last
       /\ node_next' = e.next
  /\ wpc' = BroadcastWork
  /\ work_mutex' = NoThread
  /\ result' = [result EXCEPT ![c] = "true"]
  /\ submitted' = Append(submitted, cwork[c])
  /\ cwork' = [cwork EXCEPT ![c] = NULL]
  /\ cpc' = [cpc EXCEPT ![c] = "idle"]
  /\ Touch(c)
  /\ node_uaf' = IF work_first # NULL /\ node_frees[work_last] > 0
                   THEN node_uaf \cup {c} ELSE node_uaf
  /\ UNCHANGED <<mainVars, text_frees>>
  /\ UNCHANGED <<working_cnt, thread_cnt, stop, node_frees, pool_freed,
                 wwork, cargs, cret,
                 num, allocated, waits, dequeued, runs, producer, swept>>

\* ----------------------------------------------------------- pool_wait
\* A client calls pool_wait(tm) with a valid handle.
WaitCall(c) ==
  /\ cpc[c] = "idle"
  /\ ~DestroyStarted
  /\ waits < MaxWaits
  /\ waits' = waits + 1
  /\ cpc' = [cpc EXCEPT ![c] = "wt_lock"]
  /\ cret' = [cret EXCEPT ![c] = "idle"]
  /\ UNCHANGED <<mainVars, auxVars>>
  /\ UNCHANGED <<poolVars, workerVars, cwork, cargs, result,
                 num, allocated, submitted, dequeued, runs, producer, swept, pool_uaf>>

\* Line 204, or the re-acquisition that ends pthread_cond_wait at line 208.
WaitLock(c) ==
  /\ cpc[c] = "wt_lock"
  /\ work_mutex = NoThread
  /\ work_mutex' = c
  /\ cpc' = [cpc EXCEPT ![c] = "wt_check"]
  /\ Touch(c)
  /\ UNCHANGED <<mainVars, auxVars>>
  /\ UNCHANGED <<work_first, work_last, working_cnt, thread_cnt, stop,
                 node_next, node_frees, pool_freed, workerVars,
                 cwork, cargs, result, cret,
                 num, allocated, waits, submitted, dequeued, runs, producer, swept>>

\* A pool_wait that clears stop when it leaves its loop.
WaitCheck_ClearsStop(c) ==
  /\ cpc[c] = "wt_check"
  /\ cpc' = [cpc EXCEPT ![c] = IF WaitMustBlock THEN "wt_waiting" ELSE "wt_ret"]
  /\ stop' = (stop /\ WaitMustBlock)
  /\ work_mutex' = NoThread
  /\ Touch(c)
  /\ UNCHANGED <<mainVars, auxVars>>
  /\ UNCHANGED <<work_first, work_last, working_cnt, thread_cnt,
                 node_next, node_frees, pool_freed, workerVars,
                 cwork, cargs, result, cret,
                 num, allocated, waits, submitted, dequeued, runs, producer, swept>>

\* Lines 205-213: block on working_cond, or leave the loop and unlock.
WaitCheck(c) ==
  /\ cpc[c] = "wt_check"
  /\ cpc' = [cpc EXCEPT ![c] = IF WaitMustBlock THEN "wt_waiting" ELSE "wt_ret"]
  /\ work_mutex' = NoThread
  /\ Touch(c)
  /\ UNCHANGED <<mainVars, auxVars>>
  /\ UNCHANGED <<work_first, work_last, working_cnt, thread_cnt, stop,
                 node_next, node_frees, pool_freed, workerVars,
                 cwork, cargs, result, cret,
                 num, allocated, waits, submitted, dequeued, runs, producer, swept>>

\* Line 214: pool_wait returns to its caller.
WaitReturn(c) ==
  /\ cpc[c] = "wt_ret"
  /\ cpc' = [cpc EXCEPT ![c] = cret[c]]
  /\ UNCHANGED <<mainVars, auxVars>>
  /\ UNCHANGED <<poolVars, workerVars, cwork, cargs, result, cret, histVars>>

\* -------------------------------------------------------- pool_destroy
\* The controlling thread calls pool_destroy(tm), once, when no other
\* client is inside the pool.
DestroyCall(c) ==
  /\ c = Main
  /\ \A d \in Clients : cpc[d] = "idle"
  /\ cpc' = [cpc EXCEPT ![c] = "d_lock"]
  /\ UNCHANGED <<mainVars, auxVars>>
  /\ UNCHANGED <<poolVars, workerVars, cwork, cargs, result, cret, histVars>>

\* A pool_destroy that starts its sweep without the lock of line 153.
DestroyLock_NoMutex(c) ==
  /\ cpc[c] = "d_lock"
  /\ cwork' = [cwork EXCEPT ![c] = work_first]
  /\ cpc' = [cpc EXCEPT ![c] = "d_sweep"]
  /\ Touch(c)
  /\ UNCHANGED <<mainVars, auxVars>>
  /\ UNCHANGED <<work_first, work_last, work_mutex, working_cnt, thread_cnt,
                 stop, node_next, node_frees, pool_freed, workerVars,
                 cargs, result, cret,
                 num, allocated, waits, submitted, dequeued, runs, producer, swept>>

\* Lines 153-154.
DestroyLock(c) ==
  /\ cpc[c] = "d_lock"
  /\ work_mutex = NoThread
  /\ work_mutex' = c
  /\ cwork' = [cwork EXCEPT ![c] = work_first]
  /\ cpc' = [cpc EXCEPT ![c] = "d_sweep"]
  /\ Touch(c)
  /\ UNCHANGED <<mainVars, auxVars>>
  /\ UNCHANGED <<work_first, work_last, working_cnt, thread_cnt, stop,
                 node_next, node_frees, pool_freed, workerVars,
                 cargs, result, cret,
                 num, allocated, waits, submitted, dequeued, runs, producer, swept>>

\* Lines 155-159, one turn of the loop: free a pending node.
DestroySweep(c) ==
  /\ cpc[c] = "d_sweep"
  /\ cwork[c] # NULL
  /\ node_frees' = [node_frees EXCEPT ![cwork[c]] = @ + 1]
  /\ swept' = swept \cup {cwork[c]}
  /\ cwork' = [cwork EXCEPT ![c] = node_next[cwork[c]]]
  /\ UNCHANGED <<mainVars, auxVars>>
  /\ UNCHANGED <<work_first, work_last, work_mutex, working_cnt, thread_cnt,
                 stop, node_next, pool_freed, workerVars,
                 cpc, cargs, result, cret,
                 num, allocated, waits, submitted, dequeued, runs, producer, pool_uaf>>

\* Lines 160-164: stop, broadcast work_cond, unlock, enter pool_wait.
DestroyStop(c) ==
  /\ cpc[c] = "d_sweep"
  /\ cwork[c] = NULL
  /\ stop' = TRUE
  /\ wpc' = BroadcastWork
  /\ work_mutex' = NoThread
  /\ cpc' = [cpc EXCEPT ![c] = "wt_lock"]
  /\ cret' = [cret EXCEPT ![c] = "d_free"]
  /\ Touch(c)
  /\ UNCHANGED <<mainVars, auxVars>>
  /\ UNCHANGED <<work_first, work_last, working_cnt, thread_cnt,
                 node_next, node_frees, pool_freed, wwork, cwork, cargs, result,
                 num, allocated, waits, submitted, dequeued, runs, producer, swept>>

\* Lines 166-170: destroy the mutex and the condition variables, free(tm).
DestroyFree(c) ==
  /\ cpc[c] = "d_free"
  /\ pool_freed' = TRUE
  /\ cpc' = [cpc EXCEPT ![c] = "done"]
  /\ UNCHANGED <<mainVars, auxVars>>
  /\ UNCHANGED <<work_first, work_last, work_mutex, working_cnt, thread_cnt,
                 stop, node_next, node_frees, workerVars,
                 cwork, cargs, result, cret, histVars>>

\* ------------------------------------------------------ specifications
WorkerStep(w) ==
  W_Lock(w) \/ W_Check(w) \/ W_Get(w) \/ W_Run(w) \/ W_Relock(w)
    \/ W_Finish(w) \/ W_Exit(w)

\* A client's steps inside a call it has made.
ClientProgress(c) ==
  SubmitEntry(c) \/ SubmitLock(c) \/ SubmitEnqueue(c) \/ WaitLock(c)
    \/ WaitCheck(c) \/ WaitReturn(c) \/ DestroyLock(c) \/ DestroySweep(c)
    \/ DestroyStop(c) \/ DestroyFree(c)

ClientCall(c) ==
  \/ \E tm \in {NULL, POOL}, func \in {NULL, FUNC} : SubmitCall(c, tm, func)
  \/ WaitCall(c)
  \/ DestroyCall(c)

\* One controlling thread: create, then pool_add_work and pool_wait calls,
\* then pool_destroy.
Next ==
  \/ \E w \in Workers : WorkerStep(w)
  \/ ClientCall(Main)
  \/ ClientProgress(Main)

Spec == Init /\ [][Next]_vars

\* Two producer threads that call pool_add_work with valid arguments, any
\* number of workers, and pool_destroy by the controlling thread once both
\* producers are outside the pool.
NextMP ==
  \/ \E w \in Workers : WorkerStep(w)
  \/ \E c \in Clients : SubmitCall(c, POOL, FUNC)
  \/ \E c \in Clients : SubmitEntry(c) \/ SubmitLock(c) \/ SubmitEnqueue(c)
  \/ DestroyCall(Main) \/ DestroyLock(Main) \/ DestroySweep(Main)
  \/ DestroyStop(Main) \/ WaitLock(Main) \/ WaitCheck(Main)
  \/ WaitReturn(Main) \/ DestroyFree(Main)

SpecMP == Init /\ [][NextMP]_vars

\* Fair scheduling: every worker, and the controlling thread inside a call
\* it has made, eventually takes a step that stays possible.  Nothing
\* obliges the controlling thread to make another call.
Fairness ==
  /\ \A w \in Workers : WF_vars(WorkerStep(w))
  /\ WF_vars(ClientProgress(Main))

\* The controlling thread's calls that reach the pool: pool_add_work with
\* valid arguments, pool_wait, pool_destroy.
FairNext ==
  \/ \E w \in Workers : WorkerStep(w)
  \/ SubmitCall(Main, POOL, FUNC) \/ WaitCall(Main) \/ DestroyCall(Main)
  \/ ClientProgress(Main)

FairSpec == Init /\ [][FairNext]_vars /\ Fairness

\* ------------------------------------------------------ the result list
\* An insert that puts the new item behind the items of equal score.
fzf_list_insert_TiesAfter(l, item) ==
  LET P == {i \in 1..Len(l.nodes) : l.nodes[i].score < item.score}
      k == IF P = {} THEN Len(l.nodes) + 1
           ELSE CHOOSE i \in P : \A j \in P : i <= j
  IN [nodes |-> SubSeq(l.nodes, 1, k - 1) \o <<item>>
                  \o SubSeq(l.nodes, k, Len(l.nodes)),
      len |-> l.len + 1]

\* The scan of lines 269-273: the index of the node the new one goes behind.
RECURSIVE Scan(_, _, _)
Scan(nodes, curr, score) ==
  IF curr < Len(nodes) /\ nodes[curr + 1].score > score
    THEN Scan(nodes, curr + 1, score)
    ELSE curr

\* fzf_list_insert (lines 262-277); the list's nodes from the head on.
fzf_list_insert(l, item) ==
  IF l.nodes = <<>> \/ l.nodes[1].score <= item.score
    THEN [nodes |-> <<item>> \o l.nodes, len |-> l.len + 1]
    ELSE LET curr == Scan(l.nodes, 1, item.score) IN
           [nodes |-> SubSeq(l.nodes, 1, curr) \o <<item>>
                        \o SubSeq(l.nodes, curr + 1, Len(l.nodes)),
            len |-> l.len + 1]

\* fzf_list_print (lines 279-285): one line "<str> (<score>)" per node, from
\* the head on; a line is kept as its two fields.
fzf_list_print(l, txt) ==
  [i \in 1..Len(l.nodes) |->
     [str |-> txt[l.nodes[i].str], score |-> l.nodes[i].score]]

\* A caller inserts an item; its string is the next one allocated.
Insert(score) ==
  /\ Len(inserted) < MaxInserts
  /\ list' = fzf_list_insert(list, [str |-> Len(inserted) + 1, score |-> score])
  /\ inserted' = Append(inserted, score)
  /\ UNCHANGED <<mpc, input, text, printed, scorer>>
  /\ UNCHANGED <<poolVars, workerVars, clientVars, histVars, auxVars>>

ListNext == \E score \in 0..MaxScore : Insert(score)

ListSpec == NoPoolInit /\ [][ListNext]_vars

\* ---------------------------------------------------------------- main
Chars == {"a", "b"}

\* The strings of at most MaxLineLen characters.
Strings == UNION {[1..k -> Chars] : k \in 0..MaxLineLen}

Scores == (0 - MaxLineScore)..MaxLineScore

\* fzf_get_score is a function of the string alone (pattern and slab are
\* fixed); `sc` is its graph as far as it has been evaluated, and `v` the
\* value it turns out to have at `str` if that is new.
Reveal(sc, str, v) ==
  IF \E p \in Range(sc) : p[1] = str THEN sc ELSE Append(sc, <<str, v>>)

fzf_get_score(sc, str) == (CHOOSE p \in Range(sc) : p[1] = str)[2]

\* Lines 332-340: getline returns a line (with its newline, or without one
\* when the input ends without it); the copy is the line less its last
\* character; it is scored and inserted when the score is positive.
MainReadLine(content, newline) ==
  /\ mpc = "read"
  /\ Len(input) < MaxLines
  /\ IF input = <<>> THEN TRUE ELSE input[Len(input)].newline
  /\ IF newline THEN TRUE ELSE content # <<>>
  /\ LET line == IF newline THEN Append(content, "\n") ELSE content
         read == Len(line)
         copy == SubSeq(line, 1, read - 1)
         k == Len(input) + 1
     IN /\ input' = Append(input, [content |-> content, newline |-> newline])
        /\ text' = Append(text, copy)
        /\ \E v \in Scores, u \in Scores :
             /\ scorer' = Reveal(Reveal(scorer, copy, v), content, u)
             /\ LET score == fzf_get_score(scorer', copy) IN
                  IF score > 0
                    THEN /\ list' = fzf_list_insert(list, [str |-> k, score |-> score])
                         /\ inserted' = Append(inserted, score)
                    ELSE UNCHANGED <<list, inserted>>
  /\ UNCHANGED <<mpc, printed>>
  /\ UNCHANGED <<poolVars, workerVars, clientVars, histVars, auxVars>>

\* Lines 343-348: getline returns -1; print the list and exit.
MainEOF ==
  /\ mpc = "read"
  /\ printed' = fzf_list_print(list, text)
  /\ mpc' = "done"
  /\ UNCHANGED <<list, input, text, scorer, inserted>>
  /\ UNCHANGED <<poolVars, workerVars, clientVars, histVars, auxVars>>

MainNext ==
  \/ \E content \in Strings, newline \in BOOLEAN : MainReadLine(content, newline)
  \/ MainEOF

MainSpec == NoPoolInit /\ [][MainNext]_vars

\* ----------------------------------------- the pool with `worker` tasks
\* The worker loop with `worker` as the function of every task.
WorkerStepOwn(w) ==
  W_Lock(w) \/ W_Check(w) \/ W_Get(w) \/ (\E score \in Scores : W_RunWorker(w, score))
    \/ W_Relock(w) \/ W_Finish(w) \/ W_Exit(w)

\* The pool as the multithreaded main (lines 300-321) drives it: tasks whose
\* function is `worker` and whose argument is a malloc'ed copy of a line,
\* then pool_destroy.
OwnNext ==
  \/ \E w \in Workers : WorkerStepOwn(w)
  \/ SubmitCall(Main, POOL, FUNC) \/ DestroyCall(Main)
  \/ ClientProgress(Main)

OwnSpec == Init /\ [][OwnNext]_vars

\* --------------------------------- pool_add_work racing pool_destroy
\* A second thread calls pool_add_work with valid arguments at any time
\* before the pool is freed, pool_destroy or no pool_destroy.
RaceSubmitCall(c) ==
  /\ cpc[c] = "idle"
  /\ ~pool_freed
  /\ allocated + Cardinality({d \in Clients : cpc[d] = "s_entry"}) < MaxTasks
  /\ cpc' = [cpc EXCEPT ![c] = "s_entry"]
  /\ cargs' = [cargs EXCEPT ![c] = <<POOL, FUNC>>]
  /\ result' = [result EXCEPT ![c] = "none"]
  /\ UNCHANGED <<mainVars, auxVars>>
  /\ UNCHANGED <<poolVars, workerVars, cwork, cret, histVars>>

\* Line 184, taken before the pool is freed.
RaceSubmitLock(c) == ~pool_freed /\ SubmitLock(c)

\* The controlling thread calls pool_destroy without waiting for the other
\* thread to be outside the pool.
RaceDestroyCall(c) ==
  /\ c = Main
  /\ cpc[c] = "idle"
  /\ ~DestroyStarted
  /\ cpc' = [cpc EXCEPT ![c] = "d_lock"]
  /\ UNCHANGED <<mainVars, auxVars>>
  /\ UNCHANGED <<poolVars, workerVars, cwork, cargs, result, cret, histVars>>

RaceNext ==
  \/ \E w \in Workers : WorkerStep(w)
  \/ RaceSubmitCall(Other) \/ SubmitEntry(Other) \/ RaceSubmitLock(Other)
  \/ SubmitEnqueue(Other)
  \/ RaceDestroyCall(Main) \/ DestroyLock(Main) \/ DestroySweep(Main)
  \/ DestroyStop(Main) \/ WaitLock(Main) \/ WaitCheck(Main)
  \/ WaitReturn(Main) \/ DestroyFree(Main)

RaceSpec == Init /\ [][RaceNext]_vars

\* ------------------------------------------- two threads in pool_wait
\* The controlling thread submits, waits and destroys; a second thread
\* calls pool_wait as well, so that two threads can be blocked on
\* working_cond at once: two pool_wait callers, or one caller and the
\* pool_wait inside pool_destroy.
WaitersNext ==
  \/ \E w \in Workers : WorkerStep(w)
  \/ SubmitCall(Main, POOL, FUNC) \/ WaitCall(Main) \/ RaceDestroyCall(Main)
  \/ ClientProgress(Main)
  \/ WaitCall(Other) \/ WaitLock(Other) \/ WaitCheck(Other) \/ WaitReturn(Other)

\* Fair scheduling of the workers and of both threads inside their calls.
WaitersFairness ==
  /\ \A w \in Workers : WF_vars(WorkerStep(w))
  /\ WF_vars(ClientProgress(Main))
  /\ WF_vars(WaitLock(Other) \/ WaitCheck(Other) \/ WaitReturn(Other))

WaitersSpec == Init /\ [][WaitersNext]_vars /\ WaitersFairness

\* ---------------------------------------------------------- properties
IsPrefix(a, b) == Len(a) <= Len(b) /\ SubSeq(b, 1, Len(a)) = a

\* The nodes of `seq` that producer p submitted, in the order of `seq`.
Of(seq, p) == SelectSeq(seq, LAMBDA n : producer[n] = p)

\* C1: when pool_wait, called by the thread that submitted k >= 1 tasks to a
\* pool with at least one worker and with pool_destroy never called,
\* returns, working_cnt is 0, the queue is empty and each of the k tasks
\* has been executed.
C1_WaitQuiescent ==
  (cpc[Main] = "wt_ret" /\ cret[Main] = "idle" /\ ~stop /\ num >= 1
     /\ submitted # <<>>)
    => /\ working_cnt = 0
       /\ work_first = NULL
       /\ \A n \in Range(submitted) : runs[n] = 1

\* C2: a task that pool_destroy's sweep found in the queue is never dequeued
\* or executed, and every task a worker dequeued has been executed by the
\* time pool_destroy's pool_wait has returned.
C2_EagerDiscard ==
  /\ \A n \in swept : runs[n] = 0 /\ n \notin Range(dequeued)
  /\ cpc[Main] \in {"d_free", "done"} => \A n \in Range(dequeued) : runs[n] = 1

C2_Witness ==
  /\ cpc[Main] = "done"
  /\ swept # {}
  /\ \E n \in Range(dequeued) : runs[n] = 1

\* C3: for every producer, its tasks are dequeued in the order in which its
\* pool_add_work calls returned, none of them skipped.
C3_FifoPerProducer ==
  \A p \in Clients : IsPrefix(Of(dequeued, p), Of(submitted, p))

C3_Witness ==
  /\ num = 2
  /\ Len(dequeued) = 3
  /\ \A p \in Clients : \E n \in Range(dequeued) : producer[n] = p

\* C4: pool_destroy releases the pool only when thread_cnt is 0 and every
\* worker has retired, and no worker touches the pool after the release.
C4_JoinBeforeFree ==
  /\ (cpc[Main] = "d_free" \/ pool_freed)
       => /\ thread_cnt = 0
          /\ \A w \in Workers : wpc[w] \in {"retired", "none"}
  /\ pool_uaf \cap Workers = {}

C4_Witness ==
  /\ pool_freed
  /\ num >= 2
  /\ \E n \in Nodes : runs[n] = 1

\* C5: pool_destroy, once called, returns.
C5_DestroyTerminates == DestroyStarted ~> (cpc[Main] = "done")

C5_Witness ==
  /\ cpc[Main] = "done"
  /\ num >= 2
  /\ thread_cnt = 0
  /\ submitted # <<>>

\* C6: no task node is freed twice, none is freed both by a worker and by the
\* sweep, and when pool_destroy has returned every allocated node has been
\* freed exactly once.
C6_FreedOnce ==
  /\ \A n \in Nodes : node_frees[n] <= 1 /\ ~(n \in swept /\ runs[n] > 0)
  /\ cpc[Main] = "done" => \A n \in 1..allocated : node_frees[n] = 1

C6_Witness ==
  /\ cpc[Main] = "done"
  /\ allocated = 3
  /\ Cardinality(swept) = 1
  /\ Cardinality({n \in Nodes : runs[n] = 1}) = 2

\* C7: pool_add_work with a null handle or a null function returns false and
\* changes neither the queue, the counters, stop nor any worker; with valid
\* arguments it goes on to enqueue, returns true, and when it releases the
\* mutex the new node is the last element of the queue.
InvalidArgs(c) == cargs[c][1] = NULL \/ cargs[c][2] = NULL

C7_SubmitContract ==
  [][\A c \in Clients :
       /\ (cpc[c] = "s_entry" /\ cpc'[c] # "s_entry" /\ InvalidArgs(c))
            => /\ result'[c] = "false"
               /\ cpc'[c] = "idle"
               /\ UNCHANGED <<work_first, work_last, node_next, working_cnt,
                              thread_cnt, stop, wpc, work_mutex>>
       /\ (cpc[c] = "s_entry" /\ cpc'[c] # "s_entry" /\ ~InvalidArgs(c))
            => cpc'[c] = "s_lock"
       /\ (cpc[c] = "s_enqueue" /\ cpc'[c] # "s_enqueue")
            => /\ result'[c] = "true"
               /\ work_mutex' = NoThread
               /\ Queue' # <<>>
               /\ Queue'[Len(Queue')] = cwork[c]
               /\ work_last' = cwork[c]]_vars

C7_Witness ==
  /\ result[Main] = "false"
  /\ Len(Queue) >= 1
  /\ submitted # <<>>

\* C8: with at least one worker and unless pool_destroy is called, a time
\* comes when every task whose pool_add_work has returned true has been
\* executed; no task is executed twice, and no worker is blocked on
\* work_cond while the queue is non-empty or stop is set.
C8_NoLostWork ==
  /\ [](\A n \in Nodes : runs[n] <= 1)
  /\ [](\A w \in Workers : wpc[w] = "waiting" => (work_first = NULL /\ ~stop))
  /\ (num >= 1 /\ submitted # <<>>)
       ~> ((\A n \in Range(submitted) : runs[n] = 1) \/ DestroyStarted)

C8_Witness ==
  /\ num >= 1
  /\ ~DestroyStarted
  /\ Len(submitted) = 3
  /\ \A n \in Range(submitted) : runs[n] = 1

\* C9: after any sequence of fzf_list_insert calls on an empty list the
\* scores from the head on never increase, the list holds exactly the
\* inserted items, each once, and of two items of equal score the one
\* inserted later comes first; inserting 3, 9, 3, 7 gives 9, 7, 3 (the
\* second), 3 (the first).
C9_SortedList ==
  LET n == list.nodes IN
    /\ \A i, j \in 1..Len(n) : i < j => n[i].score >= n[j].score
    /\ Len(n) = Len(inserted) /\ list.len = Len(inserted)
    /\ {n[i].str : i \in 1..Len(n)} = 1..Len(inserted)
    /\ \A i \in 1..Len(n) : n[i].score = inserted[n[i].str]
    /\ \A i, j \in 1..Len(n) :
         (i < j /\ n[i].score = n[j].score) => n[i].str > n[j].str
    /\ inserted = <<3, 9, 3, 7>>
         => n = <<[str |-> 2, score |-> 9], [str |-> 4, score |-> 7],
                  [str |-> 3, score |-> 3], [str |-> 1, score |-> 3]>>

C9_Witness == inserted = <<3, 9, 3, 7>> /\ Len(list.nodes) = 4

\* The number of places of `seq` that hold x.
CountIn(seq, x) == Cardinality({i \in 1..Len(seq) : seq[i] = x})

NonIncreasing(out) ==
  \A i, j \in 1..Len(out) : i < j => out[i].score >= out[j].score

\* The input's candidates, each with the score fzf_get_score gives it.
Candidates ==
  [i \in 1..Len(input) |->
     [str |-> input[i].content, score |-> fzf_get_score(scorer, input[i].content)]]

\* C10: when main has consumed its input, the lines printed are exactly the
\* candidates whose score is positive, each once and with its score, in
\* non-increasing order of score.
C10_FilterAndOrder ==
  mpc = "done" =>
    /\ NonIncreasing(printed)
    /\ \A x \in Range(printed) \cup Range(Candidates) :
         CountIn(printed, x) = IF x.score > 0 THEN CountIn(Candidates, x) ELSE 0

\* The same for an input whose last line ends with a newline.
FilterAndOrderOfTerminatedInput ==
  (mpc = "done" /\ \A i \in 1..Len(input) : input[i].newline)
    => /\ NonIncreasing(printed)
       /\ \A x \in Range(printed) \cup Range(Candidates) :
            CountIn(printed, x) = IF x.score > 0 THEN CountIn(Candidates, x) ELSE 0

\* C11: every text handed to a successful pool_add_work has been freed
\* exactly once when pool_destroy has returned, whatever its score and
\* whether its task ran or was discarded; no text is freed twice and no
\* task or text is read after it was freed.
C11_TextReleasedOnce ==
  /\ \A n \in Nodes : text_frees[n] <= 1
  /\ node_uaf = {}
  /\ cpc[Main] = "done" => \A n \in Range(submitted) : text_frees[n] = 1

\* The client is about to take a step of pool_wait: the call itself, line
\* 204, the test of lines 205-210 or the return.  (A client blocked in line
\* 208 takes no step; a worker's signal moves it.)
InWaitStep(c) ==
  \/ cpc[c] \in {"wt_lock", "wt_check", "wt_ret"} /\ cpc'[c] # cpc[c]
  \/ cpc[c] = "idle" /\ cpc'[c] = "wt_lock"

\* C12: no step of pool_wait changes the queue, working_cnt, thread_cnt or
\* stop, nor which tasks were dequeued, run or freed.
C12_WaitIsPureBarrier ==
  [][\A c \in Clients :
       InWaitStep(c) =>
         UNCHANGED <<work_first, work_last, node_next, working_cnt, thread_cnt,
                     stop, submitted, dequeued, runs, node_frees, swept>>]_vars

\* pool_wait was called twice and has returned, with a task run and a task
\* still queued.
C12_Witness ==
  /\ waits = MaxWaits
  /\ cpc[Main] = "idle"
  /\ ~DestroyStarted
  /\ work_first # NULL
  /\ \E n \in Nodes : runs[n] = 1

\* Workers between the dequeue (line 99) and the decrement of line 108.
BusyWorkers == {w \in Workers : wpc[w] \in {"run", "relock", "finish"}}

\* Workers that were spawned and have not passed line 116.
LiveWorkers == {w \in Workers : wpc[w] \notin {"none", "retired"}}

\* C13: until the pool is freed, working_cnt <= thread_cnt, and neither
\* counter ever wraps below zero: each counts exactly the workers it is
\* meant to count and stays within the number of threads created.
C13_BusyAtMostThreads ==
  ~pool_freed =>
    /\ working_cnt <= thread_cnt
    /\ thread_cnt <= num
    /\ working_cnt = Cardinality(BusyWorkers)
    /\ thread_cnt = Cardinality(LiveWorkers)

\* After stop, one worker has retired while the other still runs a task:
\* the two counters are equal and not zero.
C13_Witness ==
  /\ ~pool_freed
  /\ stop
  /\ working_cnt = 1
  /\ thread_cnt = 1
  /\ \E w \in Workers : wpc[w] = "retired"
  /\ \E w \in Workers : wpc[w] = "run"

\* The tasks that were accepted and neither dequeued nor discarded, oldest
\* first.
Pending ==
  SelectSeq(submitted, LAMBDA n : n \notin Range(dequeued) /\ n \notin swept)

\* work_first is null exactly when no task is pending; a non-null work_first
\* heads a chain of live nodes that ends at work_last; a single pending task
\* is both head and tail.
QueueShape ==
  /\ (work_first = NULL) <=> (Pending = <<>>)
  /\ work_first = NULL => work_last = NULL
  /\ work_first # NULL =>
       /\ \A n \in Range(Queue) : node_frees[n] = 0
       /\ work_last = Queue[Len(Queue)]
       /\ node_frees[work_last] = 0
  /\ Len(Pending) = 1 => work_first = work_last

\* C14: from construction until the pool is freed, the queue has its shape
\* whenever the mutex is not held, the states after pool_destroy's sweep
\* included.
C14_QueueShape == (~pool_freed /\ work_mutex = NoThread) => QueueShape

\* The shape as the code keeps it: up to the sweep of pool_destroy.
QueueShapeUntilSweep == (~stop /\ work_mutex = NoThread) => QueueShape

Threads == Workers \cup Clients

Pc(t) == IF t \in Workers THEN wpc[t] ELSE cpc[t]

\* The thread's next step reads or writes the queue pointers, a counter or
\* stop: lines 90-99 and 108-116 of the worker, 185-191 of pool_add_work,
\* 206-207 of pool_wait, 154-160 of pool_destroy.
AccessesPool(t) ==
  IF t \in Workers
    THEN wpc[t] \in {"check", "get", "finish", "exit"}
    ELSE cpc[t] \in {"s_enqueue", "wt_check", "d_sweep"}

\* C15: every thread that is about to read or write the queue pointers, the
\* counters or stop holds the mutex, so at most one thread is at such a
\* point; and every step that changes one of them is a step of the thread
\* that holds the mutex.
C15_MutexDiscipline ==
  /\ [](\A t \in Threads : AccessesPool(t) => work_mutex = t)
  /\ [](Cardinality({t \in Threads : AccessesPool(t)}) <= 1)
  /\ [][<<work_first, work_last, node_next, working_cnt, thread_cnt, stop>>'
          # <<work_first, work_last, node_next, working_cnt, thread_cnt, stop>>
        => \E t \in Threads : /\ work_mutex = t
                               /\ AccessesPool(t)
                               /\ Pc(t)' # Pc(t)]_vars

\* A worker decrements thread_cnt on its exit path while the other worker
\* and the controlling thread both want the mutex.
C15_Witness ==
  /\ \E w \in Workers : wpc[w] = "exit" /\ work_mutex = w
  /\ \E w \in Workers : wpc[w] \in {"lock", "relock"}
  /\ cpc[Main] = "wt_lock"

\* C16: a worker that is running a task's function does not hold the mutex.
C16_RunsOutsideLock ==
  \A w \in Workers : wpc[w] = "run" => work_mutex # w

\* Two workers run their tasks at the same time while pool_add_work is
\* inside its critical section with a third task.
C16_Witness ==
  /\ \E v, w \in Workers : /\ v # w
                           /\ wpc[v] = "run" /\ wwork[v] # NULL
                           /\ wpc[w] = "run" /\ wwork[w] # NULL
  /\ cpc[Main] = "s_enqueue"
  /\ work_mutex = Main

\* C17: a worker reaches its exit path only from the test at the top of the
\* loop, having seen stop with the mutex held, and retires only from the
\* exit path, where it decrements thread_cnt by one and wakes a thread
\* blocked on working_cond if there is one; a retired worker takes no
\* further step; thread_cnt has lost exactly one per retired worker; while
\* stop is false no worker is on the exit path or retired.
C17_WorkerRetirement ==
  /\ [][\A w \in Workers :
          /\ (wpc[w] # "exit" /\ wpc'[w] = "exit")
               => (wpc[w] = "check" /\ stop /\ work_mutex = w)
          /\ (wpc[w] # "retired" /\ wpc'[w] = "retired")
               => /\ wpc[w] = "exit" /\ stop /\ work_mutex = w
                  /\ thread_cnt' = thread_cnt - 1
                  /\ (\E c \in Clients : cpc[c] = "wt_waiting")
                       => \E c \in Clients : /\ cpc[c] = "wt_waiting"
                                             /\ cpc'[c] = "wt_lock"
          /\ wpc[w] = "retired"
               => /\ wpc'[w] = "retired"
                  /\ wwork'[w] = wwork[w]
                  /\ (work_mutex' = w) = (work_mutex = w)]_vars
  /\ [](thread_cnt + Cardinality({w \in Workers : wpc[w] = "retired"}) = num)
  /\ [](~stop => \A w \in Workers : wpc[w] \notin {"exit", "retired"})

\* One worker has retired and woken pool_destroy's pool_wait while the other
\* is still running a task.
C17_Witness ==
  /\ \E w \in Workers : wpc[w] = "retired"
  /\ \E w \in Workers : wpc[w] = "run" /\ wwork[w] # NULL
  /\ cpc[Main] = "wt_lock"
  /\ thread_cnt = num - 1

\* C18: pool_add_work never reads or writes a node that the sweep freed,
\* and once stop is set every accepted task has been dequeued by a worker or
\* freed by the sweep: none is left in the queue, where after stop no
\* worker will dequeue it and no sweep will free it.
C18_SubmitRacingDestroy ==
  /\ node_uaf = {}
  /\ stop => \A n \in Range(submitted) : n \in Range(dequeued) \/ n \in swept

\* The second half of C18 on its own.
NoTaskStranded ==
  stop => \A n \in Range(submitted) : n \in Range(dequeued) \/ n \in swept

\* The first half of C18 on its own.
NoFreedNodeWritten == node_uaf = {}

\* pool_destroy has taken the mutex for its sweep.
SweepStarted == DestroyStarted /\ cpc[Main] # "d_lock"

\* C19: from the start of the sweep until stop is set pool_destroy holds the
\* mutex, and no task is enqueued or dequeued and no queue pointer changes
\* in between; the step that ends the sweep sets stop, wakes every worker
\* blocked on work_cond and only then gives up the mutex; so a worker that
\* looks at the pool after the sweep has begun finds stop set.
C19_SweepAtomicWithStop ==
  /\ [](cpc[Main] = "d_sweep" => work_mutex = Main /\ ~stop)
  /\ [][cpc[Main] = "d_sweep"
          => /\ UNCHANGED <<submitted, dequeued, work_first, work_last, node_next>>
             /\ cpc'[Main] # "d_sweep"
                  => /\ stop' /\ work_mutex' = NoThread
                     /\ \A w \in Workers : wpc[w] = "waiting" => wpc'[w] = "lock"]_vars
  /\ [](SweepStarted /\ cpc[Main] # "d_sweep" => stop)
  /\ [](\A w \in Workers : (SweepStarted /\ AccessesPool(w)) => stop)

\* The sweep has freed a task and is about to set stop, while a worker and
\* a thread inside pool_add_work both wait for the mutex.
C19_Witness ==
  /\ cpc[Main] = "d_sweep"
  /\ swept # {}
  /\ cwork[Main] = NULL
  /\ cpc[Other] = "s_lock"
  /\ \E w \in Workers : wpc[w] = "lock"

\* C20: under fair scheduling, a thread blocked on working_cond whose
\* condition for returning holds is eventually no longer blocked, however
\* many threads are blocked there with it.
C20_NoLostWakeup ==
  \A c \in Clients :
    (cpc[c] = "wt_waiting" /\ ~WaitMustBlock) ~> (cpc[c] # "wt_waiting")

\* Two threads are blocked on working_cond at once.
TwoWaiters == \A c \in Clients : cpc[c] = "wt_waiting"

\* Nothing is left to happen and a thread is still blocked in pool_wait
\* although its condition for returning holds.
WaiterLeftBehind ==
  /\ \E c \in Clients : cpc[c] = "wt_waiting"
  /\ ~WaitMustBlock
  /\ \A c \in Clients : cpc[c] \in {"wt_waiting", "idle", "done"}
  /\ \A w \in Workers : wpc[w] \in {"waiting", "retired", "none"}

====
